---- MODULE Spec2Model ----
(***************************************************************************)
(* Model of main.py: a driver that fetches a price series over HTTP,       *)
(* writes it to a RedisJSON cache, reads it back, renders three charts and *)
(* prints four aggregate statistics.                                       *)
(*                                                                         *)
(* Python values are tagged records:                                       *)
(*   None     [type |-> "NoneType"]                                        *)
(*   a dict   [type |-> "dict", items |-> function from keys to lists of   *)
(*             [timestamp, price] pairs]                                   *)
(*   a number [type |-> "number", num |-> n, den |-> d], the exact value   *)
(*             n/d in lowest terms (floats are abstracted to rationals)    *)
(***************************************************************************)
EXTENDS Integers, Sequences, FiniteSets, TLC

VARIABLES
    pc,             \* position of the driver, or the function a test has called
    response,       \* what the HTTP request of this run meets
    data,           \* the driver's data: the document fetch returned
    cache,          \* the Redis backend: key to stored JSON text
    stored_data,    \* the driver's stored_data: what RedisJson.get returned
    files,          \* image files saved so far: name to plotted series
    stdout,         \* lines printed so far
    exc,            \* the exception that ended the run ("" when none)
    calls,          \* the calls made so far
    ret,            \* return value of validate_data
    average_price, max_price, min_price, price_change

vars == <<pc, response, data, cache, stored_data, files, stdout, exc, calls, ret,
          average_price, max_price, min_price, price_change>>

(***************************************************************************)
(* Bounds                                                                  *)
(***************************************************************************)
\* longest price series of a document
MaxLen == 3
\* longest price series of a document already in the cache when a run starts
MaxStale == 1
\* number of cache calls in one behaviour of the cache specification
MaxCalls == 2

\* the prices a series is drawn from
Prices == {90, 100, 110}
\* the keys the cache specification uses
Keys == {"bitcoin_data", "other_key"}

(***************************************************************************)
(* Python values                                                           *)
(***************************************************************************)
None == [type |-> "NoneType"]

Dict(f) == [type |-> "dict", items |-> f]

EmptyDict == Dict([k \in {} |-> <<>>])

RECURSIVE GCD(_, _)
GCD(a, b) == IF b = 0 THEN a ELSE GCD(b, a % b)

Abs(n) == IF n < 0 THEN -n ELSE n

\* the number n/d (d > 0), in lowest terms
Number(n, d) ==
    LET g == GCD(Abs(n), d)
    IN  [type |-> "number", num |-> n \div g, den |-> d \div g]

\* truth value of a Python object: None and the empty dict are false
Truthy(v) ==
    IF v.type = "NoneType" THEN FALSE
    ELSE IF v.type = "dict" THEN DOMAIN v.items # {}
    ELSE v.num # 0

\* "prices" in data
HasPrices(v) == v.type = "dict" /\ "prices" \in DOMAIN v.items

\* structural equality (==) of two Python values
PyEq(a, b) == a.type = b.type /\ a = b

(***************************************************************************)
(* Documents: the i-th pair of a series carries timestamp (i-1)*1000 ms    *)
(***************************************************************************)
SeqsUpTo(S, n) == UNION {[1..m -> S] : m \in 0..n}

Series(n) == {[i \in 1..Len(ps) |-> <<(i - 1) * 1000, ps[i]>>] : ps \in SeqsUpTo(Prices, n)}

\* a second key of the market-chart document, with a fixed value
MarketCaps == <<<<0, 5>>>>

DocsUpTo(n) ==
    {EmptyDict, Dict([k \in {"market_caps"} |-> MarketCaps])}
    \cup {Dict([k \in {"prices"} |-> s]) : s \in Series(n)}
    \cup {Dict([k \in {"prices", "market_caps"} |->
                  IF k = "prices" THEN s ELSE MarketCaps]) : s \in Series(n)}

Docs == DocsUpTo(MaxLen)

(***************************************************************************)
(* JSON text, as a sequence of tokens.  json.dumps writes a value out and  *)
(* json.loads parses it back; redis-py applies them in json().set and      *)
(* json().get, and requests applies loads in response.json().              *)
(***************************************************************************)
Punct(c) == [t |-> c]
StrTok(s) == [t |-> "str", s |-> s]
NumTok(n) == [t |-> "num", n |-> n]

\* the order in which the keys of a document are written
KeyOrder == <<"prices", "market_caps">>

dumpsPair(p) == <<Punct("["), NumTok(p[1]), Punct(","), NumTok(p[2]), Punct("]")>>

RECURSIVE dumpsPairs(_)
dumpsPairs(s) ==
    IF s = <<>> THEN <<>>
    ELSE IF Len(s) = 1 THEN dumpsPair(s[1])
    ELSE dumpsPair(s[1]) \o <<Punct(",")>> \o dumpsPairs(Tail(s))

dumpsList(s) == <<Punct("[")>> \o dumpsPairs(s) \o <<Punct("]")>>

RECURSIVE dumpsMembers(_, _)
dumpsMembers(f, ks) ==
    IF ks = <<>> THEN <<>>
    ELSE LET m == <<StrTok(ks[1]), Punct(":")>> \o dumpsList(f[ks[1]])
         IN  IF Len(ks) = 1 THEN m
             ELSE m \o <<Punct(",")>> \o dumpsMembers(f, Tail(ks))

dumps(v) ==
    <<Punct("{")>>
    \o dumpsMembers(v.items, SelectSeq(KeyOrder, LAMBDA k : k \in DOMAIN v.items))
    \o <<Punct("}")>>

\* the pairs of a non-empty list whose first pair starts at toks[i];
\* next is the position after the closing bracket of the list
RECURSIVE parsePairs(_, _, _)
parsePairs(toks, i, acc) ==
    LET pair == <<toks[i + 1].n, toks[i + 3].n>>
    IN  IF toks[i + 5].t = ","
        THEN parsePairs(toks, i + 6, Append(acc, pair))
        ELSE [val |-> Append(acc, pair), next |-> i + 6]

\* the list that starts at toks[i]
parseList(toks, i) ==
    IF toks[i + 1].t = "]" THEN [val |-> <<>>, next |-> i + 2]
    ELSE parsePairs(toks, i + 1, <<>>)

\* the members of a non-empty object whose first key is toks[i]; a repeated
\* key keeps its last value
RECURSIVE parseMembers(_, _, _)
parseMembers(toks, i, acc) ==
    LET l == parseList(toks, i + 2)
        f == (toks[i].s :> l.val) @@ acc
    IN  IF toks[l.next].t = ","
        THEN parseMembers(toks, l.next + 1, f)
        ELSE f

\* text that json.loads rejects (JSONDecodeError): here, the empty body
InvalidJSON(toks) == toks = <<>>

loads(toks) ==
    IF toks[2].t = "}" THEN EmptyDict
    ELSE Dict(parseMembers(toks, 2, [k \in {} |-> <<>>]))

(***************************************************************************)
(* DataFetch.fetch                                                         *)
(***************************************************************************)
\* what the HTTP request meets: a transport error (no response), or a
\* response with a status code and a body
ConnectionError == [error |-> "ConnectionError", status_code |-> 0, text |-> <<>>]

HTTPResponse(code, text) == [error |-> "", status_code |-> code, text |-> text]

\* a non-empty document without prices, as the body of an error response
ErrorBody == Dict([k \in {"market_caps"} |-> MarketCaps])

Responses ==
    {ConnectionError}
    \cup {HTTPResponse(429, t) : t \in {<<>>, dumps(ErrorBody)}}
    \cup {HTTPResponse(200, <<>>)}
    \cup {HTTPResponse(200, dumps(d)) : d \in Docs}

\* response.raise_for_status() raises HTTPError on a 4xx or 5xx status
HTTPErrorStatus(r) == r.status_code >= 400 /\ r.status_code < 600

\* the request raises a requests.RequestException: no response, an error
\* status, or a body response.json() cannot parse (requests raises its own
\* JSONDecodeError, a RequestException)
RequestException(r) ==
    \/ r.error # ""
    \/ HTTPErrorStatus(r)
    \/ InvalidJSON(r.text)

fetch_without_raise_for_status(r) ==
    IF r.error # "" \/ InvalidJSON(r.text)
    THEN [ret |-> EmptyDict, printed |-> <<"Request error">>, raised |-> ""]
    ELSE [ret |-> loads(r.text), printed |-> <<>>, raised |-> ""]

fetch_that_reraises(r) ==
    IF RequestException(r)
    THEN [ret |-> None, printed |-> <<"Request error">>, raised |-> "RequestException"]
    ELSE [ret |-> loads(r.text), printed |-> <<>>, raised |-> ""]

fetch(r) ==
    IF RequestException(r)
    THEN [ret |-> EmptyDict, printed |-> <<"Request error">>, raised |-> ""]
    ELSE [ret |-> loads(r.text), printed |-> <<>>, raised |-> ""]

(***************************************************************************)
(* RedisJson: the backend maps a key to the JSON text stored under it.     *)
(* backend_ok is FALSE when the Redis call raises (connection refused,     *)
(* write rejected, ...).                                                   *)
(***************************************************************************)
\* JSON.SET ... NX: an existing document is kept
RedisJson_set_nx(c, key, value, backend_ok) ==
    IF backend_ok
    THEN [cache |-> c @@ (key :> dumps(value)), printed |-> <<>>, raised |-> ""]
    ELSE [cache |-> c, printed |-> <<"Redis set error">>, raised |-> ""]

\* self.client.json().set(key, "$", value): replaces the whole document
RedisJson_set(c, key, value, backend_ok) ==
    IF backend_ok
    THEN [cache |-> (key :> dumps(value)) @@ c, printed |-> <<>>, raised |-> ""]
    ELSE [cache |-> c, printed |-> <<"Redis set error">>, raised |-> ""]

\* self.client.json().get(key): JSON.GET answers nil for a key that does not
\* exist and redis-py hands that back as None
RedisJson_get(c, key, backend_ok) ==
    IF ~backend_ok
    THEN [ret |-> EmptyDict, printed |-> <<"Redis get error">>, raised |-> ""]
    ELSE IF key \notin DOMAIN c
    THEN [ret |-> None, printed |-> <<>>, raised |-> ""]
    ELSE [ret |-> loads(c[key]), printed |-> <<>>, raised |-> ""]

(***************************************************************************)
(* ProcessData: a chart generator returns the image files it saved (file   *)
(* name to the series it plotted), what it printed and what it raised      *)
(***************************************************************************)
validate_data(d) == HasPrices(d)

\* [x[1] for x in data["prices"]]
PricesOf(d) == [i \in 1..Len(d.items["prices"]) |-> d.items["prices"][i][2]]

\* datetime.fromtimestamp(x[0] / 1000), in seconds, for the pairs from index from
TimestampsOf(d, from) ==
    [i \in 1..(Len(d.items["prices"]) - from + 1) |->
        d.items["prices"][i + from - 1][1] \div 1000]

\* [b - a for a, b in zip(prices[:-1], prices[1:])]
PriceChanges(prices) ==
    IF Len(prices) < 2 THEN <<>>
    ELSE [i \in 1..(Len(prices) - 1) |-> prices[i + 1] - prices[i]]

NoFiles == [n \in {} |-> <<>>]

plot_line_chart_that_skips(d) ==
    IF ~validate_data(d)
    THEN [files |-> NoFiles, printed |-> <<"Invalid data format for plotting">>,
          raised |-> ""]
    ELSE [files |-> "line_chart.png" :> [x |-> TimestampsOf(d, 1), y |-> PricesOf(d)],
          printed |-> <<>>, raised |-> ""]

plot_line_chart(d) ==
    IF ~validate_data(d)
    THEN [files |-> NoFiles, printed |-> <<>>, raised |-> "ValueError"]
    ELSE [files |-> "line_chart.png" :> [x |-> TimestampsOf(d, 1), y |-> PricesOf(d)],
          printed |-> <<>>, raised |-> ""]

plot_histogram_that_raises(d) ==
    IF ~validate_data(d)
    THEN [files |-> NoFiles, printed |-> <<>>, raised |-> "ValueError"]
    ELSE [files |-> "histogram.png" :> [x |-> PriceChanges(PricesOf(d)), bins |-> 50],
          printed |-> <<>>, raised |-> ""]

plot_histogram(d) ==
    IF ~validate_data(d)
    THEN [files |-> NoFiles, printed |-> <<"Invalid data format for plotting">>,
          raised |-> ""]
    ELSE [files |-> "histogram.png" :> [x |-> PriceChanges(PricesOf(d)), bins |-> 50],
          printed |-> <<>>, raised |-> ""]

plot_scatter(d) ==
    IF ~validate_data(d)
    THEN [files |-> NoFiles, printed |-> <<"Invalid data format for plotting">>,
          raised |-> ""]
    ELSE [files |-> "scatter_plot.png" :>
                      [x |-> TimestampsOf(d, 2), y |-> PriceChanges(PricesOf(d))],
          printed |-> <<>>, raised |-> ""]

(***************************************************************************)
(* DataAggregator                                                          *)
(***************************************************************************)
RECURSIVE sum(_)
sum(s) == IF s = <<>> THEN 0 ELSE s[1] + sum(Tail(s))

\* max(prices), min(prices): one pass that keeps the best element so far
RECURSIVE maxFrom(_, _)
maxFrom(s, best) ==
    IF s = <<>> THEN best
    ELSE maxFrom(Tail(s), IF s[1] > best THEN s[1] ELSE best)

RECURSIVE minFrom(_, _)
minFrom(s, best) ==
    IF s = <<>> THEN best
    ELSE minFrom(Tail(s), IF s[1] < best THEN s[1] ELSE best)

\* if not data or "prices" not in data
NoPriceList(d) == ~Truthy(d) \/ ~HasPrices(d)

\* sum(prices) // len(prices)
calculate_average_price_floor_div(d) ==
    IF NoPriceList(d) THEN None
    ELSE LET prices == PricesOf(d)
         IN  IF prices # <<>> THEN Number(sum(prices) \div Len(prices), 1) ELSE None

calculate_average_price(d) ==
    IF NoPriceList(d) THEN None
    ELSE LET prices == PricesOf(d)
         IN  IF prices # <<>> THEN Number(sum(prices), Len(prices)) ELSE None

find_max_price(d) ==
    IF NoPriceList(d) THEN None
    ELSE LET prices == PricesOf(d)
         IN  IF prices # <<>> THEN Number(maxFrom(Tail(prices), prices[1]), 1) ELSE None

find_min_price(d) ==
    IF NoPriceList(d) THEN None
    ELSE LET prices == PricesOf(d)
         IN  IF prices # <<>> THEN Number(minFrom(Tail(prices), prices[1]), 1) ELSE None

calculate_price_change_high_low(d) ==
    IF NoPriceList(d) THEN None
    ELSE LET prices == PricesOf(d)
         IN  IF Len(prices) < 2 THEN None
             ELSE Number(maxFrom(Tail(prices), prices[1])
                           - minFrom(Tail(prices), prices[1]), 1)

calculate_price_change_from_one(d) ==
    IF NoPriceList(d) THEN None
    ELSE LET prices == PricesOf(d)
         IN  IF Len(prices) < 1 THEN None
             ELSE Number(prices[Len(prices)] - prices[1], 1)

calculate_price_change(d) ==
    IF NoPriceList(d) THEN None
    ELSE LET prices == PricesOf(d)
         IN  IF Len(prices) < 2 THEN None
             ELSE Number(prices[Len(prices)] - prices[1], 1)

(***************************************************************************)
(* The driver (__main__)                                                   *)
(***************************************************************************)
\* a call: the function, its key argument ("" when it has none) and whether
\* an exception occurred inside it (caught there or not)
Call(fn, key, err) == [fn |-> fn, key |-> key, err |-> err]

Failed(r) == r.printed # <<>> \/ r.raised # ""

\* what the cache holds under bitcoin_data when a run starts: nothing, or a
\* document of an earlier run
InitialCaches ==
    {[k \in {} |-> <<>>]}
    \cup {"bitcoin_data" :> dumps(d) : d \in DocsUpTo(MaxStale)}

Init ==
    /\ pc = "fetch"
    /\ response \in Responses
    /\ cache \in InitialCaches
    /\ data = None
    /\ stored_data = None
    /\ files = NoFiles
    /\ stdout = <<>>
    /\ exc = ""
    /\ calls = <<>>
    /\ ret = None
    /\ average_price = None
    /\ max_price = None
    /\ min_price = None
    /\ price_change = None

statistics == <<average_price, max_price, min_price, price_change>>

\* data = fetcher.fetch(); if data:
Fetch ==
    /\ pc = "fetch"
    /\ LET r == fetch(response)
       IN  /\ data' = r.ret
           /\ stdout' = stdout \o r.printed
           /\ exc' = r.raised
           /\ calls' = Append(calls, Call("fetch", "", Failed(r)))
           /\ pc' = IF r.raised # "" THEN "raised"
                    ELSE IF Truthy(r.ret) THEN "set"
                    ELSE "fetch_failed"
    /\ UNCHANGED <<response, cache, stored_data, files, ret, statistics>>

\* redisClient.set("bitcoin_data", data)
CacheSet ==
    /\ pc = "set"
    /\ \E backend_ok \in BOOLEAN :
         LET r == RedisJson_set(cache, "bitcoin_data", data, backend_ok)
         IN  /\ cache' = r.cache
             /\ stdout' = stdout \o r.printed
             /\ exc' = r.raised
             /\ calls' = Append(calls, Call("set", "bitcoin_data", Failed(r)))
             /\ pc' = IF r.raised # "" THEN "raised" ELSE "get"
    /\ UNCHANGED <<response, data, stored_data, files, ret, statistics>>

\* stored_data = redisClient.get("bitcoin_data"); if stored_data:
CacheGet ==
    /\ pc = "get"
    /\ \E backend_ok \in BOOLEAN :
         LET r == RedisJson_get(cache, "bitcoin_data", backend_ok)
         IN  /\ stored_data' = r.ret
             /\ stdout' = stdout \o r.printed
             /\ exc' = r.raised
             /\ calls' = Append(calls, Call("get", "bitcoin_data", Failed(r)))
             /\ pc' = IF r.raised # "" THEN "raised"
                      ELSE IF Truthy(r.ret) THEN "plot_line_chart"
                      ELSE "redis_failed"
    /\ UNCHANGED <<response, data, cache, files, ret, statistics>>

\* one chart generator of the driver, applied to stored_data
Plot(at, fn, r, then) ==
    /\ pc = at
    /\ files' = r.files @@ files
    /\ stdout' = stdout \o r.printed
    /\ exc' = r.raised
    /\ calls' = Append(calls, Call(fn, "", Failed(r)))
    /\ pc' = IF r.raised # "" THEN "raised" ELSE then
    /\ UNCHANGED <<response, data, cache, stored_data, ret, statistics>>

PlotLineChart ==
    Plot("plot_line_chart", "plot_line_chart", plot_line_chart(stored_data),
         "plot_histogram")

PlotHistogram ==
    Plot("plot_histogram", "plot_histogram", plot_histogram(stored_data),
         "plot_scatter")

PlotScatter ==
    Plot("plot_scatter", "plot_scatter", plot_scatter(stored_data), "aggregate")

\* the four aggregator calls
Aggregate ==
    /\ pc = "aggregate"
    /\ average_price' = calculate_average_price(stored_data)
    /\ max_price' = find_max_price(stored_data)
    /\ min_price' = find_min_price(stored_data)
    /\ price_change' = calculate_price_change(stored_data)
    /\ calls' = calls \o <<Call("calculate_average_price", "", FALSE),
                           Call("find_max_price", "", FALSE),
                           Call("find_min_price", "", FALSE),
                           Call("calculate_price_change", "", FALSE)>>
    /\ pc' = "print"
    /\ UNCHANGED <<response, data, cache, stored_data, files, stdout, exc, ret>>

\* the four labelled lines; each carries the value of its variable
PrintStatistics ==
    /\ pc = "print"
    /\ stdout' = stdout \o <<"Average Price", "Maximum Price", "Minimum Price",
                             "Price Change">>
    /\ pc' = "done"
    /\ UNCHANGED <<response, data, cache, stored_data, files, exc, calls, ret,
                   statistics>>

PrintRedisFailure ==
    /\ pc = "redis_failed"
    /\ stdout' = Append(stdout, "Failed to retrieve data from Redis.")
    /\ pc' = "done"
    /\ UNCHANGED <<response, data, cache, stored_data, files, exc, calls, ret,
                   statistics>>

PrintFetchFailure ==
    /\ pc = "fetch_failed"
    /\ stdout' = Append(stdout, "Failed to fetch data from API.")
    /\ pc' = "done"
    /\ UNCHANGED <<response, data, cache, stored_data, files, exc, calls, ret,
                   statistics>>

Next ==
    \/ Fetch
    \/ CacheSet
    \/ CacheGet
    \/ PlotLineChart
    \/ PlotHistogram
    \/ PlotScatter
    \/ Aggregate
    \/ PrintStatistics
    \/ PrintRedisFailure
    \/ PrintFetchFailure

Spec == Init /\ [][Next]_vars

(***************************************************************************)
(* Tests of the document functions: one function is applied to one         *)
(* document drawn at the start                                             *)
(***************************************************************************)
Bool(b) == [type |-> "bool", val |-> b]

InitUnit ==
    /\ pc = "test"
    /\ response = ConnectionError
    /\ cache = [k \in {} |-> <<>>]
    /\ data \in Docs
    /\ stored_data = None
    /\ files = NoFiles
    /\ stdout = <<>>
    /\ exc = ""
    /\ calls = <<>>
    /\ ret = None
    /\ average_price = None
    /\ max_price = None
    /\ min_price = None
    /\ price_change = None

CallValidateData ==
    /\ pc = "test"
    /\ ret' = Bool(validate_data(data))
    /\ calls' = Append(calls, Call("validate_data", "", FALSE))
    /\ pc' = "returned"
    /\ UNCHANGED <<response, data, cache, stored_data, files, stdout, exc, statistics>>

\* one chart generator, applied to data
CallPlot(fn, r) ==
    /\ pc = "test"
    /\ files' = r.files @@ files
    /\ stdout' = stdout \o r.printed
    /\ exc' = r.raised
    /\ calls' = Append(calls, Call(fn, "", Failed(r)))
    /\ pc' = IF r.raised # "" THEN "raised" ELSE "returned"
    /\ UNCHANGED <<response, data, cache, stored_data, ret, statistics>>

CallPlotLineChart == CallPlot("plot_line_chart", plot_line_chart(data))

CallPlotHistogram == CallPlot("plot_histogram", plot_histogram(data))

CallPlotScatter == CallPlot("plot_scatter", plot_scatter(data))

CallAggregators ==
    /\ pc = "test"
    /\ average_price' = calculate_average_price(data)
    /\ max_price' = find_max_price(data)
    /\ min_price' = find_min_price(data)
    /\ price_change' = calculate_price_change(data)
    /\ calls' = calls \o <<Call("calculate_average_price", "", FALSE),
                           Call("find_max_price", "", FALSE),
                           Call("find_min_price", "", FALSE),
                           Call("calculate_price_change", "", FALSE)>>
    /\ pc' = "returned"
    /\ UNCHANGED <<response, data, cache, stored_data, files, stdout, exc, ret>>

NextUnit ==
    \/ CallValidateData
    \/ CallPlotLineChart
    \/ CallPlotHistogram
    \/ CallPlotScatter
    \/ CallAggregators

SpecUnit == InitUnit /\ [][NextUnit]_vars

(***************************************************************************)
(* Tests of RedisJson: up to MaxCalls calls of set(key, data) and get(key) *)
(* on a backend that may fail at any call                                  *)
(***************************************************************************)
StaleDoc == Dict([k \in {"prices"} |-> <<<<0, 90>>>>])

TestCaches ==
    {[k \in {} |-> <<>>], "bitcoin_data" :> dumps(StaleDoc)}

InitCache ==
    /\ pc = "test"
    /\ response = ConnectionError
    /\ cache \in TestCaches
    /\ data \in Docs
    /\ stored_data = None
    /\ files = NoFiles
    /\ stdout = <<>>
    /\ exc = ""
    /\ calls = <<>>
    /\ ret = None
    /\ average_price = None
    /\ max_price = None
    /\ min_price = None
    /\ price_change = None

CallSet ==
    /\ pc = "test"
    /\ Len(calls) < MaxCalls
    /\ \E key \in Keys, backend_ok \in BOOLEAN :
         LET r == RedisJson_set(cache, key, data, backend_ok)
         IN  /\ cache' = r.cache
             /\ stdout' = stdout \o r.printed
             /\ exc' = r.raised
             /\ calls' = Append(calls, Call("set", key, Failed(r)))
             /\ pc' = IF r.raised # "" THEN "raised" ELSE "test"
    /\ UNCHANGED <<response, data, stored_data, files, ret, statistics>>

CallGet ==
    /\ pc = "test"
    /\ Len(calls) < MaxCalls
    /\ \E key \in Keys, backend_ok \in BOOLEAN :
         LET r == RedisJson_get(cache, key, backend_ok)
         IN  /\ stored_data' = r.ret
             /\ stdout' = stdout \o r.printed
             /\ exc' = r.raised
             /\ calls' = Append(calls, Call("get", key, Failed(r)))
             /\ pc' = IF r.raised # "" THEN "raised" ELSE "test"
    /\ UNCHANGED <<response, data, cache, files, ret, statistics>>

NextCache ==
    \/ CallSet
    \/ CallGet

SpecCache == InitCache /\ [][NextCache]_vars

(***************************************************************************)
(* Properties                                                              *)
(***************************************************************************)
Printed(line) == \E i \in 1..Len(stdout) : stdout[i] = line

Called(fn) == \E i \in 1..Len(calls) : calls[i].fn = fn

TimesCalled(fn) == Cardinality({i \in 1..Len(calls) : calls[i].fn = fn})

LastCall == calls[Len(calls)]

Ended == pc \in {"done", "raised"}

ChartFiles == {"line_chart.png", "histogram.png", "scatter_plot.png"}

ChartsRendered == DOMAIN files = ChartFiles

StatisticsPrinted ==
    /\ Printed("Average Price")
    /\ Printed("Maximum Price")
    /\ Printed("Minimum Price")
    /\ Printed("Price Change")

FailurePrinted ==
    \/ Printed("Failed to fetch data from API.")
    \/ Printed("Failed to retrieve data from Redis.")

\* the request met a transport error or an HTTP error status
FetchFails == response.error # "" \/ HTTPErrorStatus(response)

AggregatorNames ==
    {"calculate_average_price", "find_max_price", "find_min_price",
     "calculate_price_change"}

\* C1, as stated: a run that has ended fetched exactly once and either
\* rendered the three charts and printed the four statistics (fetched and
\* read-back documents both non-empty) or printed a failure message.
C1_StatisticsOrFailureMessage ==
    Ended =>
        /\ TimesCalled("fetch") = 1
        /\ IF Truthy(data) /\ Truthy(stored_data)
           THEN ChartsRendered /\ StatisticsPrinted
           ELSE FailurePrinted

\* C1, amended: a run that has ended fetched exactly once and ended in one
\* of three ways: with the three charts and the four statistics when the
\* fetched document is non-empty and the read-back document is non-empty and
\* has prices; with the ValueError of plot_line_chart, no chart, no
\* statistics and no failure message when the read-back document is
\* non-empty without prices; with a failure message otherwise.
C1_ThreeOutcomes ==
    Ended =>
        /\ TimesCalled("fetch") = 1
        /\ IF Truthy(data) /\ Truthy(stored_data) /\ HasPrices(stored_data)
           THEN /\ pc = "done"
                /\ ChartsRendered /\ StatisticsPrinted /\ ~FailurePrinted
           ELSE IF Truthy(data) /\ Truthy(stored_data)
           THEN /\ pc = "raised" /\ exc = "ValueError"
                /\ files = NoFiles /\ ~StatisticsPrinted /\ ~FailurePrinted
           ELSE /\ pc = "done"
                /\ FailurePrinted /\ files = NoFiles /\ ~StatisticsPrinted

\* a run ended by the line chart's ValueError on a document without prices
C1_Witness ==
    /\ pc = "raised"
    /\ Truthy(data) /\ Truthy(stored_data) /\ ~HasPrices(stored_data)
    /\ LastCall.fn = "plot_line_chart"

\* C2: when the request fails (transport or HTTP status), fetch returns the
\* empty document, the only call of the run is the fetch (no cache write or
\* read, no chart generator, no aggregate function), and the run ends with
\* the fetch-failure message.
C2_FailedFetchStopsTheRun ==
    (FetchFails /\ pc # "fetch") =>
        /\ data = EmptyDict
        /\ calls = <<Call("fetch", "", TRUE)>>
        /\ pc \in {"fetch_failed", "done"}
        /\ stored_data = None /\ files = NoFiles
        /\ pc = "done" => stdout = <<"Request error", "Failed to fetch data from API.">>

\* a run that ended after an error status whose response had a body
C2_Witness ==
    /\ HTTPErrorStatus(response) /\ response.text # <<>>
    /\ pc = "done"
    /\ Printed("Failed to fetch data from API.")

\* C3: fetch never raises; whatever the request meets it returns a document,
\* and on a transport or HTTP-status error that document is the empty
\* mapping and the error is printed.
C3_FetchNeverRaises ==
    (Len(calls) = 1 /\ calls[1].fn = "fetch") =>
        /\ exc = "" /\ pc # "raised"
        /\ data.type = "dict"
        /\ FetchFails => (~HasPrices(data) /\ data = EmptyDict
                          /\ Len(stdout) >= 1 /\ stdout[1] = "Request error")
        /\ ~RequestException(response) => ~Printed("Request error")

\* fetch has returned after a transport error
C3_Witness ==
    /\ Len(calls) = 1 /\ calls[1].fn = "fetch"
    /\ response.error = "ConnectionError"
    /\ data = EmptyDict

\* a set immediately followed by a get of the same key, no error in either
SetThenGet ==
    /\ Len(calls) >= 2
    /\ LastCall.fn = "get" /\ ~LastCall.err
    /\ calls[Len(calls) - 1].fn = "set" /\ ~calls[Len(calls) - 1].err
    /\ calls[Len(calls) - 1].key = LastCall.key

\* C4: when set(k, d) is followed immediately by get(k) with no error in
\* either call, get returns a value structurally equal to d.
C4_RoundTrip == SetThenGet => PyEq(stored_data, data)

\* a round trip of a document with two keys and a series of at least two
\* pairs
C4_Witness ==
    /\ SetThenGet
    /\ Len(calls) = 2
    /\ LastCall.key = "bitcoin_data"
    /\ DOMAIN data.items = {"prices", "market_caps"}
    /\ Len(data.items["prices"]) >= 2
    /\ stdout = <<>>

\* C5: get returns the stored document when the key holds one and the empty
\* mapping on a backend error and on a miss; neither get nor set raises.
C5_GetDocumentOrEmptyMapping ==
    /\ exc = "" /\ pc # "raised"
    /\ (Len(calls) >= 1 /\ LastCall.fn = "get") =>
          IF LastCall.err \/ LastCall.key \notin DOMAIN cache
          THEN PyEq(stored_data, EmptyDict)
          ELSE PyEq(stored_data, loads(cache[LastCall.key]))

\* the price list of data, the empty list when there is none
PriceList == IF HasPrices(data) THEN PricesOf(data) ELSE <<>>

Aggregated == Called("calculate_price_change")

\* C6: average, maximum and minimum are None exactly when the document has
\* no prices key or an empty list; price change is None exactly when the
\* document has no prices key or fewer than two prices.
C6_NoValueCases ==
    Aggregated =>
        /\ PyEq(average_price, None) <=> (~HasPrices(data) \/ Len(PriceList) = 0)
        /\ PyEq(max_price, None) <=> (~HasPrices(data) \/ Len(PriceList) = 0)
        /\ PyEq(min_price, None) <=> (~HasPrices(data) \/ Len(PriceList) = 0)
        /\ PyEq(price_change, None) <=> (~HasPrices(data) \/ Len(PriceList) < 2)

\* a single-element list: only price change has no value
C6_Witness ==
    /\ Aggregated
    /\ HasPrices(data) /\ Len(PriceList) = 1
    /\ average_price.type = "number" /\ max_price.type = "number"
    /\ min_price.type = "number" /\ price_change.type = "NoneType"

\* C7: with at least two pairs, price change is the last price minus the
\* first price.
C7_LastMinusFirst ==
    (Aggregated /\ Len(PriceList) >= 2) =>
        /\ price_change.type = "number"
        /\ price_change.den = 1
        /\ price_change.num = PriceList[Len(PriceList)] - PriceList[1]

\* prices 100, 110, 90: price change -10, not the high-low delta
C7_Witness ==
    /\ Aggregated
    /\ PriceList = <<100, 110, 90>>
    /\ price_change.num = -10

\* C8: with a non-empty list, the average times the count is the sum of the
\* prices, the maximum is a price of the list that none exceeds and the
\* minimum a price of the list that none is below; for a single element all
\* three are that element's price.
C8_MeanAndExtrema ==
    (Aggregated /\ Len(PriceList) >= 1) =>
        LET idx == 1..Len(PriceList)
        IN  /\ average_price.type = "number" /\ average_price.den > 0
            /\ average_price.num * Len(PriceList) = sum(PriceList) * average_price.den
            /\ max_price.type = "number" /\ max_price.den = 1
            /\ \E i \in idx : PriceList[i] = max_price.num
            /\ \A i \in idx : PriceList[i] <= max_price.num
            /\ min_price.type = "number" /\ min_price.den = 1
            /\ \E i \in idx : PriceList[i] = min_price.num
            /\ \A i \in idx : PriceList[i] >= min_price.num
            /\ Len(PriceList) = 1 =>
                  /\ average_price = Number(PriceList[1], 1)
                  /\ max_price = Number(PriceList[1], 1)
                  /\ min_price = Number(PriceList[1], 1)

\* prices 100, 110, 90: average 100, maximum 110, minimum 90
C8_Witness ==
    /\ Aggregated
    /\ PriceList = <<100, 110, 90>>
    /\ average_price = Number(100, 1)
    /\ max_price = Number(110, 1)
    /\ min_price = Number(90, 1)

\* C9: on a document without a prices key, validate_data returns False,
\* plot_line_chart raises without saving line_chart.png, and plot_histogram
\* and plot_scatter print a message and return without saving a file and
\* without raising.
C9_MissingPrices ==
    (~HasPrices(data) /\ Len(calls) = 1) =>
        /\ LastCall.fn = "validate_data" => ret = Bool(FALSE)
        /\ LastCall.fn = "plot_line_chart" =>
              (pc = "raised" /\ exc = "ValueError" /\ files = NoFiles)
        /\ LastCall.fn \in {"plot_histogram", "plot_scatter"} =>
              /\ pc = "returned" /\ exc = ""
              /\ files = NoFiles
              /\ stdout = <<"Invalid data format for plotting">>

\* the histogram generator has skipped a non-empty document without prices
C9_Witness ==
    /\ Truthy(data) /\ ~HasPrices(data)
    /\ Len(calls) = 1 /\ LastCall.fn = "plot_histogram"
    /\ pc = "returned"
    /\ Printed("Invalid data format for plotting")

\* C10: in a run that rendered the charts and printed the statistics, the
\* document the renderers and aggregators consumed equals the document the
\* fetch of that run returned.
C10_ConsumedIsFetched ==
    (pc = "done" /\ ChartsRendered /\ StatisticsPrinted) => PyEq(stored_data, data)

====
